---- MODULE Spec2Model ----
(***************************************************************************)
(* Model of the Monash club voting backend (src/backend.py): the tables    *)
(* its handlers read and write, the handlers for elections, candidates,    *)
(* ballots, verification and results, and the Instant Runoff computation   *)
(* calculate_irv_winner that reads the stored ballots.                     *)
(*                                                                         *)
(* A table is the sequence of its rows in insertion order; the primary key *)
(* of a row is its index.  submit_vote adds one VotingSession, one Vote    *)
(* and one VoteReceipt together, so the three tables share their indices:  *)
(* votes[i] is the preferences column of the Vote of session i and         *)
(* vote_hashes[i] is its vote_hash column.                                 *)
(*                                                                         *)
(* A stored vote is its preferences mapping, candidate id -> rank.  The    *)
(* mapping is a Python dict (a JSON object once stored), so a candidate    *)
(* id occurs at most once in it: it is modelled as a function whose domain *)
(* is the set of ranked candidate ids.  The JSON column turns the integer  *)
(* keys into decimal strings and calculate_irv_winner turns them back with *)
(* int(); the function keeps the ids as integers and the operators that    *)
(* serialise a mapping say which form of the keys they are given.          *)
(*                                                                         *)
(* The model follows one election of a fresh database: create_election is  *)
(* taken once, so the election has id 1 and every session belongs to it.   *)
(***************************************************************************)
EXTENDS Integers, Sequences, FiniteSets, TLC

\* Candidate ids a client can name in a ballot.  submit_vote never compares
\* them with the election's candidates.
CandidateIds == {1, 2, 3}

\* Candidate ids of a database that has handed out more than nine of them.
WideCandidateIds == {2, 10}

\* Election ids a request can name: the election, and one that does not exist.
ElectionIds == {1, 2}

\* Candidate names an administrator enters.  Candidate.name is not unique.
Names == {"A", "B"}

\* Number of votes stored for the election, any API client.
MaxVotes == 4

\* Number of votes stored for the election when every vote comes from the
\* voting page, which ranks all candidates.
MaxFrontendVotes == 5

\* The history counter of loop iterations stops counting here.  The loop
\* itself is not stopped.
RoundCap == 4

\* Voters (Google accounts) that take part when the same voter may come back.
MaxVoters == 2

\* Rows of the audit log when administrators repeat their actions.
MaxAuditLogs == 4

\* The clock stops here.
MaxTime == 2

\* Votes stored when the results view is read, and candidates registered then.
MaxResultsVotes == 3
MaxResultsCandidates == 2

\* Votes stored when calculate_irv_winner is called again and again, and the
\* candidate ids the ballots name then.
MaxRepeatVotes == 4
TwoCandidateIds == {1, 2}

\* Python's None and a returned candidate id.
None == <<>>
Some(c) == <<c>>

VARIABLES
    votes,                   \* Vote.preferences of the election, in query order
    pc,                      \* position in calculate_irv_winner
    ballots,                 \* its local list of working ballots
    first_pref_counts,       \* its local dict, as left by the last round
    total_votes,             \* its local total, as left by the last round
    candidates_to_eliminate, \* its local list, as left by the last round
    result,                  \* the value it returned
    exit,                    \* which return statement produced result
    round,                   \* loop iterations started (history)
    eliminated,              \* candidates removed from the ballots (history)
    previous,                \* what the call before this one returned (history)
    elections,               \* Election rows
    candidates,              \* Candidate rows
    voters,                  \* Voter rows: their google_id
    sessions,                \* VotingSession rows
    vote_hashes,             \* Vote.vote_hash, row by row with votes
    receipts,                \* VoteReceipt rows: their voting_session_id
    audit_logs,              \* AuditLog rows
    now,                     \* the server's clock
    response                 \* the last request handled and its response

vars == <<votes, pc, ballots, first_pref_counts, total_votes,
          candidates_to_eliminate, result, exit, round, eliminated, previous,
          elections, candidates, voters, sessions, vote_hashes, receipts,
          audit_logs, now, response>>

irv_locals == <<ballots, first_pref_counts, total_votes,
                candidates_to_eliminate, result, exit, round, eliminated>>

\* What calculate_irv_winner neither reads nor writes, the votes aside.
api_state == <<elections, candidates, voters, sessions, vote_hashes, receipts,
               audit_logs, now, response>>

\* What the request handlers leave alone.
irv_state == <<pc, irv_locals, previous>>

----------------------------------------------------------------------------
\* Helpers on sequences and sets

Range(f) == {f[x] : x \in DOMAIN f}

MinOf(S) == CHOOSE m \in S : \A n \in S : m <= n

\* [c for c in ballot if c not in removed]
RECURSIVE Without(_, _)
Without(ballot, removed) ==
    IF ballot = <<>> THEN <<>>
    ELSE IF Head(ballot) \in removed THEN Without(Tail(ballot), removed)
    ELSE <<Head(ballot)>> \o Without(Tail(ballot), removed)

\* [b for b in ballots if b]
RECURSIVE NonEmpty(_)
NonEmpty(bs) ==
    IF bs = <<>> THEN <<>>
    ELSE IF Head(bs) = <<>> THEN NonEmpty(Tail(bs))
    ELSE <<Head(bs)>> \o NonEmpty(Tail(bs))

----------------------------------------------------------------------------
\* Requests, responses and the audit log

\* The request a handler was called with and the response it gave: the status
\* of the HTTPException it raised, or 200 and the returned body.
Respond(op, args, status, body) ==
    response' = [op |-> op, args |-> args, status |-> status, body |-> body]

\* Faulty variant of log_audit_action:
\* the new row takes the place of the log.
log_audit_action_replacing(action_type, election_id) ==
    audit_logs' = <<[action_type |-> action_type,
                     election_id |-> election_id]>>

\* log_audit_action: one more AuditLog row
log_audit_action(action_type, election_id) ==
    audit_logs' = Append(audit_logs, [action_type |-> action_type,
                                      election_id |-> election_id])

----------------------------------------------------------------------------
\* Elections and candidates

\* The election's window holds every instant of the clock.
AlwaysOpen == [start_time |-> 0, end_time |-> MaxTime]

\* The election opens after the clock's first instant and closes before its
\* last.
MiddleWindow == [start_time |-> 1, end_time |-> MaxTime - 1]

\* POST /api/elections: the new row is not frozen (column default).
create_election(election) ==
    /\ elections' = Append(elections, [start_time |-> election.start_time,
                                       end_time   |-> election.end_time,
                                       is_frozen  |-> FALSE])
    /\ log_audit_action("create_election", Len(elections) + 1)
    /\ Respond("create_election", None, 200,
               [election_id |-> Len(elections) + 1])
    /\ UNCHANGED <<candidates, voters, sessions, votes, vote_hashes, receipts,
                   now>>

\* Faulty variant of IsFrozen:
\* the flag is never looked at.
NeverFrozen(election_id) == FALSE

\* election.is_frozen of an existing election
IsFrozen(election_id) == elections[election_id].is_frozen

\* POST /api/elections/{election_id}/candidates
add_candidate(election_id, name) ==
    IF election_id \notin DOMAIN elections
    THEN /\ Respond("add_candidate", [election_id |-> election_id], 404, None)
         /\ UNCHANGED <<elections, candidates, voters, sessions, votes,
                        vote_hashes, receipts, audit_logs, now>>
    ELSE IF IsFrozen(election_id)
    THEN /\ Respond("add_candidate", [election_id |-> election_id], 400, None)
         /\ UNCHANGED <<elections, candidates, voters, sessions, votes,
                        vote_hashes, receipts, audit_logs, now>>
    ELSE /\ candidates' = Append(candidates, [election_id |-> election_id,
                                              name        |-> name])
         /\ log_audit_action("add_candidate", election_id)
         /\ Respond("add_candidate", [election_id |-> election_id], 200,
                    [candidate_id |-> Len(candidates) + 1])
         /\ UNCHANGED <<elections, voters, sessions, votes, vote_hashes,
                        receipts, now>>

\* POST /api/elections/{election_id}/freeze and .../unfreeze
set_frozen(op, election_id, frozen) ==
    IF election_id \notin DOMAIN elections
    THEN /\ Respond(op, [election_id |-> election_id], 404, None)
         /\ UNCHANGED <<elections, candidates, voters, sessions, votes,
                        vote_hashes, receipts, audit_logs, now>>
    ELSE /\ elections' = [elections EXCEPT ![election_id].is_frozen = frozen]
         /\ log_audit_action(op, election_id)
         /\ Respond(op, [election_id |-> election_id], 200, None)
         /\ UNCHANGED <<candidates, voters, sessions, votes, vote_hashes,
                        receipts, now>>

freeze_election(election_id) == set_frozen("freeze_election", election_id, TRUE)

unfreeze_election(election_id) ==
    set_frozen("unfreeze_election", election_id, FALSE)

\* Candidate ids registered for an election
ElectionCandidates(election_id) ==
    {c \in DOMAIN candidates : candidates[c].election_id = election_id}

\* GET /api/audit-logs: the rows of the log, and one more row for the access
\* itself.
get_audit_logs ==
    /\ log_audit_action("view_audit_log", None)
    /\ Respond("get_audit_logs", None, 200, audit_logs)
    /\ UNCHANGED <<elections, candidates, voters, sessions, votes, vote_hashes,
                   receipts, now>>

----------------------------------------------------------------------------
\* Ballot submission

\* The preferences a request body can carry: any mapping from some
\* candidate ids to ranks (ranks beyond the number of ids add no
\* accepted mapping).
PreferencesOver(ids) ==
    UNION {[S -> 1..Cardinality(ids)] : S \in SUBSET ids}

RawPreferences == PreferencesOver(CandidateIds)

WidePreferences == PreferencesOver(WideCandidateIds)

\* BallotSubmission.validate_preferences: sorted(ranks) == [1, ..., len(ranks)],
\* that is, every rank 1..n is the rank of exactly one key.
validate_preferences(v) ==
    LET n == Cardinality(DOMAIN v)
    IN  /\ \A c \in DOMAIN v : v[c] \in 1..n
        /\ \A r \in 1..n : Cardinality({c \in DOMAIN v : v[c] = r}) = 1

\* The voting page submits only when rankedOrder holds every candidate it
\* fetched for the election, and ranks them index + 1.
FrontendPreferences ==
    LET ids == ElectionCandidates(1)
    IN  {v \in [ids -> 1..Cardinality(ids)] :
            \A c, d \in ids : c # d => v[c] # v[d]}

\* str(n) for n >= 0: the decimal digits
RECURSIVE Digits(_)
Digits(n) == IF n < 10 THEN <<n>> ELSE Digits(n \div 10) \o <<n % 10>>

\* s < t for Python strings: the first differing character decides, a proper
\* prefix comes first.
RECURSIVE StrLess(_, _)
StrLess(s, t) ==
    IF t = <<>> THEN FALSE
    ELSE IF s = <<>> THEN TRUE
    ELSE IF Head(s) # Head(t) THEN Head(s) < Head(t)
    ELSE StrLess(Tail(s), Tail(t))

\* sorted(keys) for integer keys: the key at position i has i - 1 keys
\* before it.
SortedIntKeys(keys) ==
    [i \in 1..Cardinality(keys) |->
        CHOOSE k \in keys : Cardinality({d \in keys : d < k}) = i - 1]

\* sorted(keys) for the decimal strings of the keys
SortedStrKeys(keys) ==
    [i \in 1..Cardinality(keys) |->
        CHOOSE k \in keys :
            Cardinality({d \in keys : StrLess(Digits(d), Digits(k))}) = i - 1]

\* json.dumps(preferences, sort_keys=True) as the sequence of its
\* "key": value members.  The keys are sorted before they are written: as
\* integers for the dict of the request body.
DumpsIntKeys(preferences) ==
    LET keys == SortedIntKeys(DOMAIN preferences)
    IN  [i \in DOMAIN keys |-> <<Digits(keys[i]), preferences[keys[i]]>>]

\* The same for the dict read back from the JSON column, whose keys are the
\* decimal strings.
DumpsStrKeys(preferences) ==
    LET keys == SortedStrKeys(DOMAIN preferences)
    IN  [i \in DOMAIN keys |-> <<Digits(keys[i]), preferences[keys[i]]>>]

\* generate_vote_hash: SHA-256 of "<dumps>:<voter_id>:<election_id>".  The
\* digest stands for the text it is taken of.
generate_vote_hash(dumped, voter_id, election_id) ==
    <<dumped, voter_id, election_id>>

\* current_time < election.start_time
NotStarted(election_id) == now < elections[election_id].start_time

\* Faulty variant of HasEnded:
\* the end of the window is not looked at.
NeverEnded(election_id) == FALSE

\* current_time > election.end_time
HasEnded(election_id) == now > elections[election_id].end_time

\* The Voter row of a Google account, if there is one
VoterIds(google_id) == {v \in DOMAIN voters : voters[v] = google_id}

\* Faulty variant of UsedSessions:
\* the query for an existing session finds nothing.
NoUsedSessions(voter_id, election_id) == {}

\* The used sessions of a voter in an election
UsedSessions(voter_id, election_id) ==
    {s \in DOMAIN sessions : /\ sessions[s].voter_id = voter_id
                             /\ sessions[s].election_id = election_id
                             /\ sessions[s].is_used}

\* The rows submit_vote adds once every check has passed: the session, the
\* vote with its hash, the receipt.
StoreVote(voter_id, election_id, preferences) ==
    /\ sessions' = Append(sessions, [confirmation_code |-> Len(sessions) + 1,
                                     voter_id          |-> voter_id,
                                     election_id       |-> election_id,
                                     is_used           |-> TRUE])
    /\ votes' = Append(votes, preferences)
    /\ vote_hashes' = Append(vote_hashes,
           generate_vote_hash(DumpsIntKeys(preferences), voter_id, election_id))
    /\ receipts' = Append(receipts, Len(sessions) + 1)

\* POST /api/vote once the request body has passed the BallotSubmission
\* validators.
submit_vote(google_id, election_id, preferences) ==
    LET args == [google_id |-> google_id, election_id |-> election_id]
        Reject(status) ==
            /\ Respond("submit_vote", args, status, None)
            /\ UNCHANGED <<voters, sessions, votes, vote_hashes, receipts>>
    IN  /\ UNCHANGED <<elections, candidates, audit_logs, now>>
        /\ IF election_id \notin DOMAIN elections THEN Reject(404)
           ELSE IF IsFrozen(election_id) THEN Reject(400)
           ELSE IF NotStarted(election_id) THEN Reject(400)
           ELSE IF HasEnded(election_id) THEN Reject(400)
           ELSE LET voter_id == IF VoterIds(google_id) # {}
                                THEN CHOOSE v \in VoterIds(google_id) : TRUE
                                ELSE Len(voters) + 1
                IN  /\ voters' = IF VoterIds(google_id) # {} THEN voters
                                 ELSE Append(voters, google_id)
                    /\ IF UsedSessions(voter_id, election_id) # {}
                       THEN /\ Respond("submit_vote", args, 400, None)
                            /\ UNCHANGED <<sessions, votes, vote_hashes,
                                           receipts>>
                       ELSE /\ StoreVote(voter_id, election_id, preferences)
                            /\ Respond("submit_vote", args, 200,
                                   [confirmation_code |-> Len(sessions) + 1])

\* POST /api/vote: a body that fails validate_preferences is answered 422
\* before submit_vote runs.
PostVote(google_id, election_id, preferences) ==
    IF validate_preferences(preferences)
    THEN submit_vote(google_id, election_id, preferences)
    ELSE /\ Respond("submit_vote", [google_id |-> google_id,
                                    election_id |-> election_id], 422, None)
         /\ UNCHANGED <<elections, candidates, voters, sessions, votes,
                        vote_hashes, receipts, audit_logs, now>>

----------------------------------------------------------------------------
\* Vote verification

\* POST /api/verify-vote.  google_id is None when the request leaves it out.
verify_vote(confirmation_code, google_id) ==
    LET args == [confirmation_code |-> confirmation_code]
        found == {s \in DOMAIN sessions :
                     sessions[s].confirmation_code = confirmation_code}
    IN  /\ UNCHANGED <<elections, candidates, voters, sessions, votes,
                       vote_hashes, receipts, audit_logs, now>>
        /\ IF found = {} THEN Respond("verify_vote", args, 404, None)
           ELSE LET s == CHOOSE s \in found : TRUE
                    expected_hash ==
                        generate_vote_hash(DumpsStrKeys(votes[s]),
                                           sessions[s].voter_id,
                                           sessions[s].election_id)
                IN  IF google_id # None
                       /\ Some(voters[sessions[s].voter_id]) # google_id
                    THEN Respond("verify_vote", args, 403, None)
                    ELSE Respond("verify_vote", args, 200,
                             [integrity_check |->
                                 IF expected_hash = vote_hashes[s]
                                 THEN "passed" ELSE "failed"])

----------------------------------------------------------------------------
\* The results view

\* The key under which get_election_results counts a top preference:
\* candidate_names.get(int(cand_id), "Unknown")
CandidateName(election_id, cand_id) ==
    IF cand_id \in ElectionCandidates(election_id)
    THEN candidates[cand_id].name ELSE "Unknown"

\* The candidate with preference 1 on a vote, if any
FirstPreference(preferences) ==
    {c \in DOMAIN preferences : preferences[c] = 1}

\* Faulty variant of VoteCounts:
\* a vote that ranks nobody is counted under "Unknown".
VoteCountsWithEmpty(election_id) ==
    LET KeyOf(i) == IF FirstPreference(votes[i]) = {} THEN "Unknown"
                    ELSE CandidateName(election_id,
                             CHOOSE c \in FirstPreference(votes[i]) : TRUE)
    IN  [k \in {KeyOf(i) : i \in DOMAIN votes} |->
            Cardinality({i \in DOMAIN votes : KeyOf(i) = k})]

\* first_pref_counts of get_election_results: for each vote, the first item
\* with preference 1 adds one under the name of its candidate.
VoteCounts(election_id) ==
    LET tops == [i \in {j \in DOMAIN votes : FirstPreference(votes[j]) # {}}
                   |-> CHOOSE c \in FirstPreference(votes[i]) : TRUE]
    IN  [k \in {CandidateName(election_id, tops[i]) : i \in DOMAIN tops} |->
            Cardinality({i \in DOMAIN tops :
                            CandidateName(election_id, tops[i]) = k})]

\* GET /api/elections/{election_id}/results
get_election_results(election_id) ==
    /\ UNCHANGED <<elections, candidates, voters, sessions, votes, vote_hashes,
                   receipts, audit_logs, now>>
    /\ IF election_id \notin DOMAIN elections
       THEN Respond("get_election_results", [election_id |-> election_id],
                    404, None)
       ELSE Respond("get_election_results", [election_id |-> election_id], 200,
                    [total_votes |-> Len(votes),
                     vote_counts |-> VoteCounts(election_id)])

----------------------------------------------------------------------------
\* The requests of the model.  Handlers run one at a time: none of them
\* awaits, and calculate_irv_winner is an ordinary function.

CreateElection(election) ==
    /\ pc = "idle"
    /\ elections = <<>>
    /\ create_election(election)
    /\ UNCHANGED irv_state

AddCandidate(limit) ==
    /\ pc = "idle"
    /\ Len(candidates) < limit
    /\ Len(audit_logs) < MaxAuditLogs
    /\ \E election_id \in ElectionIds, name \in Names :
           add_candidate(election_id, name)
    /\ UNCHANGED irv_state

\* The administrator registers the candidates of the election before the
\* voting page is opened to the voters.
RegisterCandidate ==
    /\ pc = "idle"
    /\ Len(candidates) < Cardinality(CandidateIds)
    /\ votes = <<>>
    /\ add_candidate(1, "A")
    /\ response'.status = 200
    /\ UNCHANGED irv_state

FreezeElection ==
    /\ pc = "idle"
    /\ Len(audit_logs) < MaxAuditLogs
    /\ \E election_id \in ElectionIds : freeze_election(election_id)
    /\ UNCHANGED irv_state

UnfreezeElection ==
    /\ pc = "idle"
    /\ Len(audit_logs) < MaxAuditLogs
    /\ \E election_id \in ElectionIds : unfreeze_election(election_id)
    /\ UNCHANGED irv_state

GetAuditLogs ==
    /\ pc = "idle"
    /\ Len(audit_logs) < MaxAuditLogs
    /\ get_audit_logs
    /\ UNCHANGED irv_state

Tick ==
    /\ pc = "idle"
    /\ now < MaxTime
    /\ now' = now + 1
    /\ UNCHANGED <<votes, irv_state, elections, candidates, voters, sessions,
                   vote_hashes, receipts, audit_logs, response>>

\* A ballot of a voter who has not voted yet, accepted.
AcceptedVote(preferences, limit) ==
    /\ pc = "idle"
    /\ Len(votes) < limit
    /\ PostVote(Len(voters) + 1, 1, preferences)
    /\ response'.status = 200
    /\ UNCHANGED irv_state

SubmitVote == \E preferences \in RawPreferences :
                  AcceptedVote(preferences, MaxVotes)

confirmSubmit == \E preferences \in FrontendPreferences :
                     AcceptedVote(preferences, MaxFrontendVotes)

SubmitVoteForResults == \E preferences \in RawPreferences :
                            AcceptedVote(preferences, MaxResultsVotes)

SubmitVoteAgain == \E preferences \in PreferencesOver(TwoCandidateIds) :
                       AcceptedVote(preferences, MaxRepeatVotes)

\* One ballot, accepted.
SubmitVoteOnce == \E preferences \in WidePreferences :
                      AcceptedVote(preferences, 1)

\* Any ballot of any of the voters, accepted or not.
ApiVote ==
    /\ pc = "idle"
    /\ \E google_id \in 1..MaxVoters, election_id \in ElectionIds,
          preferences \in WidePreferences :
           PostVote(google_id, election_id, preferences)
    /\ UNCHANGED irv_state

VerifyVote ==
    /\ pc = "idle"
    /\ \E confirmation_code \in 1..MaxVoters + 1,
          google_id \in {None} \cup {Some(g) : g \in 1..MaxVoters} :
           verify_vote(confirmation_code, google_id)
    /\ UNCHANGED irv_state

GetResults ==
    /\ pc = "idle"
    /\ \E election_id \in ElectionIds : get_election_results(election_id)
    /\ UNCHANGED irv_state

----------------------------------------------------------------------------
----------------------------------------------------------------------------
\* calculate_irv_winner

\* sorted(preferences.items(), key=rank), keys only: repeatedly the key of
\* least rank.
RECURSIVE SortedKeys(_, _)
SortedKeys(preferences, keys) ==
    IF keys = {} THEN <<>>
    ELSE LET c == CHOOSE c \in keys :
                      \A d \in keys : preferences[c] <= preferences[d]
         IN  <<c>> \o SortedKeys(preferences, keys \ {c})

\* Faulty variant of ParseBallot:
\* the items sorted by rank, highest rank first.
RECURSIVE SortedKeysDescending(_, _)
SortedKeysDescending(preferences, keys) ==
    IF keys = {} THEN <<>>
    ELSE LET c == CHOOSE c \in keys :
                      \A d \in keys : preferences[c] >= preferences[d]
         IN  <<c>> \o SortedKeysDescending(preferences, keys \ {c})

ParseBallotDescending(preferences) ==
    SortedKeysDescending(preferences, DOMAIN preferences)

ParseBallot(preferences) == SortedKeys(preferences, DOMAIN preferences)

ParseBallots(vs) == [i \in DOMAIN vs |-> ParseBallot(vs[i])]

\* Keys of first_pref_counts in dict (insertion) order: the top preferences
\* of the non-empty ballots, in order of first appearance.
RECURSIVE FirstPrefKeys(_, _)
FirstPrefKeys(bs, seen) ==
    IF bs = <<>> THEN <<>>
    ELSE IF Head(bs) = <<>> \/ Head(bs)[1] \in seen
         THEN FirstPrefKeys(Tail(bs), seen)
         ELSE <<Head(bs)[1]>> \o FirstPrefKeys(Tail(bs), seen \cup {Head(bs)[1]})

\* first_pref_counts[ballot[0]] += 1 for every non-empty ballot
FirstPrefCounts(bs) ==
    LET tops == {bs[i][1] : i \in {j \in DOMAIN bs : bs[j] # <<>>}}
    IN  [c \in tops |->
            Cardinality({i \in DOMAIN bs : bs[i] # <<>> /\ bs[i][1] = c})]

\* Faulty variant of ExceedsHalf:
\* count >= total_votes / 2.
AtLeastHalf(count, total) == 2 * count >= total

\* count > total_votes / 2, with Python's true division
ExceedsHalf(count, total) == 2 * count > total

\* Faulty variant of MajorityWinners:
\* the first key of the dict wins the round outright.
FirstKeyWins(keys, counts, total) ==
    IF keys = <<>> THEN <<>> ELSE <<keys[1]>>

\* The first key, in dict order, that passes the majority check (<<>> if none)
MajorityWinners(keys, counts, total) ==
    SelectSeq(keys, LAMBDA c : ExceedsHalf(counts[c], total))

\* Faulty variant of MinVotes:
\* the greatest count instead of the least.
MaxVotesCount(counts) ==
    IF DOMAIN counts # {}
    THEN CHOOSE m \in Range(counts) : \A n \in Range(counts) : m >= n
    ELSE 0

\* min(first_pref_counts.values()) if first_pref_counts else 0
MinVotes(counts) ==
    IF DOMAIN counts # {} THEN MinOf(Range(counts)) ELSE 0

\* Faulty variant of CandidatesToEliminate:
\* the counts start at 0 for every candidate
\* id, so that a candidate nobody ranks first has the least count.
CandidatesToEliminateZeroInit(counts) ==
    LET all == [c \in CandidateIds |->
                    IF c \in DOMAIN counts THEN counts[c] ELSE 0]
    IN  {c \in CandidateIds : all[c] = MinOf(Range(all))}

\* Faulty variant of CandidatesToEliminate:
\* only one of the candidates with the least count is taken.
CandidatesToEliminateOne(counts) ==
    IF DOMAIN counts = {} THEN {}
    ELSE {CHOOSE c \in DOMAIN counts : counts[c] = MinVotes(counts)}

\* Faulty variant of CandidatesToEliminate:
\* the candidates nobody ranks first go out with the least-count ones.
CandidatesToEliminateUnranked(counts) ==
    {c \in CandidateIds : c \notin DOMAIN counts}
        \cup {c \in DOMAIN counts : counts[c] = MinVotes(counts)}

\* [c for c, v in first_pref_counts.items() if v == min_votes]
CandidatesToEliminate(counts) ==
    {c \in DOMAIN counts : counts[c] = MinVotes(counts)}

\* Faulty variant of AllTied:
\* the all-tied test is missing.
NeverTied(elim, counts) == FALSE

\* Faulty variant of AllTied:
\* the loop ends in a tie only when no candidate has a vote.
AllTiedWhenNoneLeft(elim, counts) == DOMAIN counts = {}

\* All-tied test: len(candidates_to_eliminate) == len(first_pref_counts)
AllTied(elim, counts) == Cardinality(elim) = Cardinality(DOMAIN counts)

\* Faulty variant of TieBreak:
\* falls back to the first candidate id when nobody has
\* a first preference.
TieBreakFallback(keys) ==
    IF keys # <<>> THEN Some(keys[1]) ELSE Some(MinOf(CandidateIds))

\* Faulty variant of TieBreak:
\* all-tied termination returns no candidate.
TieBreakNone(keys) == None

\* Faulty variant of TieBreak:
\* the tie goes to the lowest candidate id, on the ballots or not.
TieBreakLowestId(keys) == Some(MinOf(CandidateIds))

\* list(first_pref_counts.keys())[0] if first_pref_counts else None
TieBreak(keys) == IF keys # <<>> THEN Some(keys[1]) ELSE None

\* Faulty variant of Eliminate:
\* an eliminated candidate is struck only where it is
\* the top preference.
EliminateTopOnly(bs, elim) ==
    NonEmpty([i \in DOMAIN bs |->
                 IF bs[i] # <<>> /\ bs[i][1] \in elim
                 THEN Tail(bs[i]) ELSE bs[i]])

\* Faulty variant of Eliminate:
\* the ballots emptied by the elimination stay in the list.
EliminateKeepEmpty(bs, elim) ==
    [i \in DOMAIN bs |-> Without(bs[i], elim)]

\* Eliminate candidate(s), then remove empty ballots
Eliminate(bs, elim) ==
    NonEmpty([i \in DOMAIN bs |-> Without(bs[i], elim)])

\* Faulty variant of IrvStart:
\* parsing pops the items out of the stored preferences.
IrvStartConsuming ==
    /\ pc = "idle"
    /\ IF votes = <<>>
       THEN /\ pc' = "done"
            /\ result' = None
            /\ exit' = "no_votes"
            /\ UNCHANGED <<ballots, votes>>
       ELSE /\ pc' = "round"
            /\ ballots' = ParseBallots(votes)
            /\ votes' = [i \in DOMAIN votes |-> <<>>]
            /\ UNCHANGED <<result, exit>>
    /\ UNCHANGED <<first_pref_counts, total_votes,
                   candidates_to_eliminate, round, eliminated>>
    /\ UNCHANGED <<previous, api_state>>

\* Faulty variant of IrvStart:
\* the candidates the call before eliminated are still struck from the
\* ballots.
IrvStartRemembering ==
    /\ pc = "idle"
    /\ IF votes = <<>>
       THEN /\ pc' = "done"
            /\ result' = None
            /\ exit' = "no_votes"
            /\ UNCHANGED ballots
       ELSE /\ pc' = "round"
            /\ ballots' = [i \in DOMAIN votes |->
                              Without(ParseBallot(votes[i]),
                                      IF previous = None THEN {}
                                      ELSE previous[1].eliminated)]
            /\ UNCHANGED <<result, exit>>
    /\ UNCHANGED <<votes, first_pref_counts, total_votes,
                   candidates_to_eliminate, round, eliminated>>
    /\ UNCHANGED <<previous, api_state>>

\* Faulty variant of IrvStart:
\* the "if not votes" return is missing.
IrvStartUnguarded ==
    /\ pc = "idle"
    /\ pc' = "round"
    /\ ballots' = ParseBallots(votes)
    /\ UNCHANGED <<votes, first_pref_counts, total_votes,
                   candidates_to_eliminate, result, exit, round, eliminated>>
    /\ UNCHANGED <<previous, api_state>>

\* Query the votes; return None if there are none; else parse the ballots.
IrvStart ==
    /\ pc = "idle"
    /\ IF votes = <<>>
       THEN /\ pc' = "done"
            /\ result' = None
            /\ exit' = "no_votes"
            /\ UNCHANGED ballots
       ELSE /\ pc' = "round"
            /\ ballots' = ParseBallots(votes)
            /\ UNCHANGED <<result, exit>>
    /\ UNCHANGED <<votes, first_pref_counts, total_votes,
                   candidates_to_eliminate, round, eliminated>>
    /\ UNCHANGED <<previous, api_state>>

\* The query has no ORDER BY: the database may return the votes in any order.
IrvStartReordered ==
    /\ pc = "idle"
    /\ votes # <<>>
    /\ \E order \in Permutations(DOMAIN votes) :
           ballots' = ParseBallots([i \in DOMAIN votes |-> votes[order[i]]])
    /\ pc' = "round"
    /\ UNCHANGED <<votes, first_pref_counts, total_votes,
                   candidates_to_eliminate, result, exit, round, eliminated>>
    /\ UNCHANGED <<previous, api_state>>

\* One iteration of the while True loop.  The locals are bound once, in the
\* order the code computes them.
IrvRound ==
    /\ pc = "round"
    /\ \E counts \in {FirstPrefCounts(ballots)} :
       \E keys \in {FirstPrefKeys(ballots, {})} :
       \E total \in {Len(ballots)} :
       \E winner \in {MajorityWinners(keys, counts, total)} :
       \E elim \in {CandidatesToEliminate(counts)} :
       \E rest \in {Eliminate(ballots, elim)} :
           /\ round' = IF round < RoundCap THEN round + 1 ELSE round
           /\ first_pref_counts' = counts
           /\ total_votes' = total
           /\ IF winner # <<>>
              THEN /\ result' = Some(winner[1])
                   /\ exit' = "majority"
                   /\ pc' = "done"
                   /\ UNCHANGED <<ballots, candidates_to_eliminate, eliminated>>
              ELSE IF AllTied(elim, counts)
              THEN /\ result' = TieBreak(keys)
                   /\ exit' = "all_tied"
                   /\ pc' = "done"
                   /\ candidates_to_eliminate' = elim
                   /\ UNCHANGED <<ballots, eliminated>>
              ELSE /\ candidates_to_eliminate' = elim
                   /\ eliminated' = eliminated \cup elim
                   /\ ballots' = rest
                   /\ IF rest = <<>>
                      THEN /\ result' = None
                           /\ exit' = "exhausted"
                           /\ pc' = "done"
                      ELSE UNCHANGED <<result, exit, pc>>
    /\ UNCHANGED <<votes, previous, api_state>>


\* calculate_irv_winner has returned: its locals are gone, and it can be called
\* again.  What it returned is remembered for comparison.
IrvReturn ==
    /\ pc = "done"
    /\ pc' = "idle"
    /\ previous' = Some([votes |-> votes, result |-> result, exit |-> exit,
                         round |-> round, eliminated |-> eliminated])
    /\ ballots' = <<>>
    /\ first_pref_counts' = <<>>
    /\ total_votes' = 0
    /\ candidates_to_eliminate' = {}
    /\ result' = None
    /\ exit' = "none"
    /\ round' = 0
    /\ eliminated' = {}
    /\ UNCHANGED <<votes, api_state>>

----------------------------------------------------------------------------
\* A fresh database, and calculate_irv_winner not called yet.
Init ==
    /\ votes = <<>>
    /\ pc = "idle"
    /\ ballots = <<>>
    /\ first_pref_counts = <<>>
    /\ total_votes = 0
    /\ candidates_to_eliminate = {}
    /\ result = None
    /\ exit = "none"
    /\ round = 0
    /\ eliminated = {}
    /\ previous = None
    /\ elections = <<>>
    /\ candidates = <<>>
    /\ voters = <<>>
    /\ sessions = <<>>
    /\ vote_hashes = <<>>
    /\ receipts = <<>>
    /\ audit_logs = <<>>
    /\ now = 0
    /\ response = [op |-> "none", args |-> None, status |-> 0, body |-> None]

\* An open election, ballots of any API client, and the count.
Next ==
    \/ CreateElection(AlwaysOpen)
    \/ SubmitVote
    \/ IrvStart
    \/ IrvRound

Spec == Init /\ [][Next]_vars

\* The election as the voting page fills it: complete rankings only.
NextFrontend ==
    \/ CreateElection(AlwaysOpen)
    \/ RegisterCandidate
    \/ confirmSubmit
    \/ IrvStart
    \/ IrvRound

SpecFrontend == Init /\ [][NextFrontend]_vars

\* The loop of calculate_irv_winner runs on: once entered, an iteration is
\* always taken.
FairSpec == Spec /\ WF_vars(IrvRound)

\* The count called repeatedly, ballots arriving in between.
NextRepeat ==
    \/ CreateElection(AlwaysOpen)
    \/ SubmitVoteAgain
    \/ IrvStart
    \/ IrvRound
    \/ IrvReturn

SpecRepeat == Init /\ [][NextRepeat]_vars

\* The count called repeatedly, the votes read in any order.
NextReorder ==
    \/ CreateElection(AlwaysOpen)
    \/ SubmitVoteAgain
    \/ IrvStart
    \/ IrvStartReordered
    \/ IrvRound
    \/ IrvReturn

SpecReorder == Init /\ [][NextReorder]_vars

\* The election's administration and its voters: freezing, the voting
\* window, returning voters, verification.
NextApi ==
    \/ CreateElection(MiddleWindow)
    \/ FreezeElection
    \/ UnfreezeElection
    \/ Tick
    \/ ApiVote
    \/ VerifyVote

SpecApi == Init /\ [][NextApi]_vars

\* The results view and the count of the same election.
NextTally ==
    \/ CreateElection(AlwaysOpen)
    \/ AddCandidate(MaxResultsCandidates)
    \/ SubmitVoteForResults
    \/ GetResults
    \/ IrvStart
    \/ IrvRound

SpecTally == Init /\ [][NextTally]_vars

\* The election's administration, its audit log, and a voter.
NextAdmin ==
    \/ CreateElection(AlwaysOpen)
    \/ AddCandidate(MaxResultsCandidates)
    \/ FreezeElection
    \/ UnfreezeElection
    \/ GetAuditLogs
    \/ SubmitVoteOnce

SpecAdmin == Init /\ [][NextAdmin]_vars

\* The results view of an open election.
NextResults ==
    \/ CreateElection(AlwaysOpen)
    \/ AddCandidate(MaxResultsCandidates)
    \/ SubmitVoteForResults
    \/ GetResults

SpecResults == Init /\ [][NextResults]_vars

----------------------------------------------------------------------------
\* Vocabulary of the properties

\* The stored votes read directly, without the parsing of calculate_irv_winner:
\* the candidates ranked on some vote, the votes that rank nobody, and the
\* number of votes that give c rank 1.
RankedCandidates == UNION {DOMAIN votes[i] : i \in DOMAIN votes}

EmptyVotes == {i \in DOMAIN votes : DOMAIN votes[i] = {}}

TopVotes(c) ==
    Cardinality({i \in DOMAIN votes : c \in DOMAIN votes[i] /\ votes[i][c] = 1})

\* The vote whose ranking, most preferred first, is the sequence b
VoteOf(b) == [c \in Range(b) |-> CHOOSE r \in DOMAIN b : b[r] = c]

CandidatesOn(bs) == UNION {Range(bs[i]) : i \in DOMAIN bs}

Returned == pc = "done"

----------------------------------------------------------------------------
\* C1: if one candidate is the top preference of strictly more than half of
\* the non-empty ballots of round 1, calculate_irv_winner returns that
\* candidate in round 1 and eliminates nobody.
C1_MajorityShortcut ==
    Returned /\ votes # <<>> =>
        \A c \in RankedCandidates :
            2 * TopVotes(c) > Len(votes) - Cardinality(EmptyVotes)
                => /\ result = Some(c)
                   /\ round = 1
                   /\ eliminated = {}

\* C2: the elimination loop always reaches a return, whatever the ballots
\* (none, partial, empty).
C2_LoopReturns == (pc = "round") ~> Returned

C2_Witness ==
    /\ Returned
    /\ round = 2
    /\ EmptyVotes # {}
    /\ \E i \in DOMAIN votes : Cardinality(DOMAIN votes[i]) = 2

\* C3 as stated: the loop never runs more rounds than there are distinct
\* candidates on the initial ballots.
C3_RoundsAtMostCandidates == round <= Cardinality(RankedCandidates)

\* C3 amended: the loop runs at most as many rounds as there are distinct
\* candidates on the initial ballots, or one round when the ballots name no
\* candidate; and every round that does not return strikes at least one
\* candidate from all working ballots, so the set of candidates on the
\* working ballots shrinks strictly.
C3_RoundsBounded ==
    /\ [](round <= IF RankedCandidates = {} THEN 1
                   ELSE Cardinality(RankedCandidates))
    /\ [][pc = "round" /\ pc' = "round" =>
            /\ candidates_to_eliminate' # {}
            /\ candidates_to_eliminate' \subseteq CandidatesOn(ballots)
            /\ CandidatesOn(ballots') =
                   CandidatesOn(ballots) \ candidates_to_eliminate']_vars

C3_Witness ==
    /\ pc = "round"
    /\ round = 1
    /\ Cardinality(RankedCandidates) = 3
    /\ Cardinality(candidates_to_eliminate) = 2

\* C4: when every candidate ranked on the ballots has been eliminated without
\* a majority forming, so that no working ballot has a preference left, the
\* result is None.
C4_ExhaustedIsNone ==
    Returned /\ votes # <<>> /\ exit # "majority"
      /\ (RankedCandidates \subseteq eliminated \/ NonEmpty(ballots) = <<>>)
        => result = None

C4_Witness ==
    /\ Returned
    /\ Len(votes) = 2
    /\ RankedCandidates \subseteq eliminated
    /\ NonEmpty(ballots) = <<>>
    /\ result = None

\* C5 as stated: a round that ends in all-tied termination returns one of the
\* tied candidates, never None.
C5_TieReturnsCandidate ==
    Returned /\ exit = "all_tied" =>
        \E c \in candidates_to_eliminate : result = Some(c)

\* C5 amended: a round that ends in all-tied termination with at least one
\* candidate holding first-preference votes returns one of the tied
\* candidates, never None; the ballots [[X],[Y]] return X or Y.
C5_TieReturnsCandidateIfAny ==
    /\ Returned /\ exit = "all_tied" /\ DOMAIN first_pref_counts # {} =>
           /\ candidates_to_eliminate = DOMAIN first_pref_counts
           /\ \E c \in candidates_to_eliminate : result = Some(c)
    /\ \A x, y \in CandidateIds :
           Returned /\ x # y /\ votes = <<VoteOf(<<x>>), VoteOf(<<y>>)>> =>
               result \in {Some(x), Some(y)}

C5_Witness ==
    /\ Returned
    /\ exit = "all_tied"
    /\ votes = <<VoteOf(<<1>>), VoteOf(<<2>>)>>
    /\ result \in {Some(1), Some(2)}

\* C6: with exactly two candidates and no empty ballot the winner is the one
\* with strictly more first-preference votes; with equal first-preference
\* votes the result is one of the two, never None.
C6_TwoCandidates ==
    \A x, y \in CandidateIds :
        (/\ Returned
         /\ x # y
         /\ RankedCandidates = {x, y}
         /\ EmptyVotes = {})
        => /\ TopVotes(x) > TopVotes(y) => result = Some(x)
           /\ TopVotes(x) = TopVotes(y) => result \in {Some(x), Some(y)}

C6_Witness ==
    /\ Returned
    /\ votes = <<VoteOf(<<2, 1>>), VoteOf(<<1>>), VoteOf(<<2>>)>>
    /\ result = Some(2)

\* C7: a round returns by the majority check exactly when some candidate has
\* 2 * count > total, and it returns that candidate: 3 of 5 wins outright,
\* 2 of 4 does not.
C7_StrictMajority ==
    round >= 1 =>
        LET passing == {c \in DOMAIN first_pref_counts :
                           2 * first_pref_counts[c] > total_votes}
        IN  IF passing # {}
            THEN Returned /\ exit = "majority"
                   /\ \E c \in passing : result = Some(c)
            ELSE exit # "majority"

C7_Witness ==
    /\ Returned
    /\ exit = "majority"
    /\ round = 1
    /\ total_votes = 5
    /\ \E c \in DOMAIN first_pref_counts :
           first_pref_counts[c] = 3 /\ result = Some(c)

\* C8: with no ballots at all the result is None and no counting round runs.
C8_NoBallots ==
    Returned /\ votes = <<>> =>
        result = None /\ round = 0 /\ exit = "no_votes"

C8_Witness == Returned /\ votes = <<>> /\ result = None

\* C9: the ballots [[A,B,C],[A,C,B],[B,A,C],[C,B,A],[C,A,B]] (A, B, C = 1, 2, 3)
\* have round-1 counts A:2, B:1, C:2 and no majority, lose exactly B, have
\* round-2 counts A:3, C:2 over 5 ballots, and return A.
C9_Ballots ==
    <<VoteOf(<<1, 2, 3>>), VoteOf(<<1, 3, 2>>), VoteOf(<<2, 1, 3>>),
      VoteOf(<<3, 2, 1>>), VoteOf(<<3, 1, 2>>)>>

C9_Scenario ==
    votes = C9_Ballots
    => /\ pc = "round" => round \in {0, 1}
       /\ pc = "round" /\ round = 1 =>
             /\ first_pref_counts = (1 :> 2 @@ 2 :> 1 @@ 3 :> 2)
             /\ total_votes = 5
             /\ candidates_to_eliminate = {2}
             /\ eliminated = {2}
             /\ ballots = << <<1, 3>>, <<1, 3>>, <<1, 3>>, <<3, 1>>, <<3, 1>> >>
       /\ Returned =>
             /\ round = 2
             /\ first_pref_counts = (1 :> 3 @@ 3 :> 2)
             /\ total_votes = 5
             /\ eliminated = {2}
             /\ exit = "majority"
             /\ result = Some(1)

C9_Witness ==
    /\ Returned
    /\ votes = C9_Ballots
    /\ result = Some(1)

\* C10: in a round where exactly one candidate has first-preference votes,
\* that candidate passes the majority check and is returned in that round.
C10_SoleCandidateMajority ==
    round >= 1 /\ Cardinality(DOMAIN first_pref_counts) = 1 =>
        /\ Returned
        /\ exit = "majority"
        /\ \E c \in DOMAIN first_pref_counts : result = Some(c)


\* C11: calculate_irv_winner never modifies the stored ballots: every step of
\* a call, from the query to the return, leaves the preferences of every
\* vote as they were, whatever was eliminated from the working copies.
C11_StoredBallotsUntouched ==
    [][pc # "idle" \/ pc' # "idle" =>
          /\ votes' = votes
          /\ vote_hashes' = vote_hashes]_vars

C11_Witness ==
    /\ Returned
    /\ round >= 2
    /\ \E i \in DOMAIN votes : DOMAIN votes[i] \cap eliminated # {}
    /\ CandidatesOn(ballots) \cap eliminated = {}


\* The results view has just answered for the election: nothing was stored
\* since, as every request overwrites the response.
ResultsShown ==
    /\ response.op = "get_election_results"
    /\ response.status = 200

\* The votes that give some candidate rank 1
VotesWithTop == {i \in DOMAIN votes : \E c \in DOMAIN votes[i] : votes[i][c] = 1}

RECURSIVE SumOver(_, _)
SumOver(counts, keys) ==
    IF keys = {} THEN 0
    ELSE LET k == CHOOSE k \in keys : TRUE
         IN  counts[k] + SumOver(counts, keys \ {k})

\* C12: the first-preference tally of the results view counts each ballot
\* once, under its top candidate; a ballot that ranks nobody adds nothing;
\* with no ballots the tally is the empty mapping; the counts add up to the
\* number of ballots that have a top preference.
C12_TallyCountsTopPreferences ==
    ResultsShown =>
        LET counts == response.body.vote_counts
        IN  /\ SumOver(counts, DOMAIN counts) = Cardinality(VotesWithTop)
            /\ votes = <<>> => DOMAIN counts = {}
            /\ \A k \in DOMAIN counts : counts[k] >= 1
            /\ \A c \in CandidateIds :
                   TopVotes(c) > 0 =>
                       /\ CandidateName(1, c) \in DOMAIN counts
                       /\ counts[CandidateName(1, c)] >= TopVotes(c)

C12_Witness ==
    /\ ResultsShown
    /\ Len(votes) = 3
    /\ EmptyVotes # {}
    /\ Cardinality(DOMAIN response.body.vote_counts) = 2

\* C13: the first-preference tally has one entry for each distinct candidate
\* id that is some ballot's top preference, ids that are not candidates of
\* the election included.
C13_OneEntryPerCandidateId ==
    ResultsShown =>
        Cardinality(DOMAIN response.body.vote_counts)
            = Cardinality({c \in CandidateIds : TopVotes(c) > 0})

\* C15: every ballot submit_vote stores ranks exactly the candidates of the
\* election, each once.
C15_StoredBallotIsCompleteRanking ==
    [][Len(votes') = Len(votes) + 1 =>
          LET stored == votes'[Len(votes')]
          IN  /\ DOMAIN stored = ElectionCandidates(1)
              /\ validate_preferences(stored)]_vars


VoteRequested ==
    /\ response'.op = "submit_vote"
    /\ now' = now
    /\ response'.args.election_id \in DOMAIN elections

\* The voter of the request has a used session in the request's election
AlreadyVoted ==
    \E v \in DOMAIN voters, s \in DOMAIN sessions :
        /\ voters[v] = response'.args.google_id
        /\ sessions[s].voter_id = v
        /\ sessions[s].election_id = response'.args.election_id
        /\ sessions[s].is_used

\* C16: while the election is frozen, every ballot that reaches submit_vote
\* (a request body that passes the BallotSubmission validators) is rejected
\* with status 400, and no request adds a voter, a session, a vote or a
\* receipt; freeze_election and unfreeze_election set and clear the flag; and
\* while the election is not frozen, such a ballot of a voter who has not
\* voted yet, sent within the voting window, is accepted and stored.
C16_FrozenElectionTakesNoVotes ==
    /\ [](response.op = "freeze_election" /\ response.status = 200 =>
              elections[response.args.election_id].is_frozen)
    /\ [](response.op = "unfreeze_election" /\ response.status = 200 =>
              ~elections[response.args.election_id].is_frozen)
    /\ [][VoteRequested /\ elections[response'.args.election_id].is_frozen =>
              /\ response'.status \in {400, 422}
              /\ UNCHANGED <<voters, sessions, votes, vote_hashes,
                             receipts>>]_vars
    /\ [][(/\ VoteRequested
           /\ ~elections[response'.args.election_id].is_frozen
           /\ now >= elections[response'.args.election_id].start_time
           /\ now <= elections[response'.args.election_id].end_time
           /\ ~AlreadyVoted
           /\ response'.status # 422) =>
              /\ response'.status = 200
              /\ Len(votes') = Len(votes) + 1
              /\ Len(sessions') = Len(sessions) + 1
              /\ Len(receipts') = Len(receipts) + 1]_vars

\* A second voter's ballot is accepted after the election was frozen and
\* unfrozen again.
C16_Witness ==
    /\ response.op = "submit_vote"
    /\ response.status = 200
    /\ Len(votes) = 2
    /\ \E i, j \in DOMAIN audit_logs :
           /\ i < j
           /\ audit_logs[i].action_type = "freeze_election"
           /\ audit_logs[j].action_type = "unfreeze_election"
           /\ audit_logs[i].election_id = 1
           /\ audit_logs[j].election_id = 1

\* C17: verify_vote reports integrity_check "passed" for every stored vote,
\* whatever candidate ids its preferences name.
C17_StoredVoteVerifies ==
    response.op = "verify_vote" /\ response.status = 200 =>
        response.body.integrity_check = "passed"


\* The top preferences of a list of working ballots, and how many of its
\* ballots have c on top.
Tops(bs) == {bs[i][1] : i \in {j \in DOMAIN bs : bs[j] # <<>>}}

TopCount(bs, c) ==
    Cardinality({i \in DOMAIN bs : bs[i] # <<>> /\ bs[i][1] = c})

\* C18: in every round that goes on to eliminate, the eliminated candidates
\* are exactly those whose first-preference count is the least among the
\* candidates with at least one first-preference vote, and all of them are
\* gone from every working ballot after the round.
C18_EliminatesAllLowest ==
    [][pc = "round" /\ (pc' = "round" \/ exit' = "exhausted") =>
          /\ candidates_to_eliminate' =
                 {c \in Tops(ballots) :
                     \A d \in Tops(ballots) :
                         TopCount(ballots, c) <= TopCount(ballots, d)}
          /\ CandidatesOn(ballots') =
                 CandidatesOn(ballots) \ candidates_to_eliminate']_vars

C18_Witness ==
    /\ pc = "round"
    /\ round = 1
    /\ Cardinality(candidates_to_eliminate) = 2
    /\ ballots # <<>>
    /\ candidates_to_eliminate \cap CandidatesOn(ballots) = {}

\* The candidates of a vote that are not in removed, most preferred first:
\* the one at position r has r - 1 of them ranked before it.
SurvivorRanking(v, removed) ==
    LET S == DOMAIN v \ removed
    IN  [r \in 1..Cardinality(S) |->
            CHOOSE c \in S : Cardinality({d \in S : v[d] < v[c]}) = r - 1]

\* The votes that rank some candidate not in removed
LiveVotes(removed) == {i \in DOMAIN votes : DOMAIN votes[i] \ removed # {}}

\* C19: at the start of every round after the first, the working ballots are
\* the original ballots with exactly the eliminated candidates filtered out,
\* in their original order of preference, and the ballots this leaves empty
\* are gone: every working ballot is non-empty.
C19_WorkingBallotsAreFiltered ==
    pc = "round" /\ round >= 1 =>
        /\ Len(ballots) = Cardinality(LiveVotes(eliminated))
        /\ \A i \in LiveVotes(eliminated) :
               ballots[Cardinality({j \in LiveVotes(eliminated) : j <= i})]
                   = SurvivorRanking(votes[i], eliminated)
        /\ \A k \in DOMAIN ballots : ballots[k] # <<>>

C19_Witness ==
    /\ pc = "round"
    /\ round = 1
    /\ Len(ballots) < Cardinality(LiveVotes({}))
    /\ \E i \in LiveVotes(eliminated) :
           Cardinality(DOMAIN votes[i] \ eliminated) = 1
             /\ Cardinality(DOMAIN votes[i]) = 3

\* C20: in every round, the first included, the total the majority check
\* compares with is the number of working ballots that still hold a
\* preference at the start of that round.
C20_TotalCountsLiveBallots ==
    round >= 1 =>
        LET before == IF exit \in {"majority", "all_tied"} THEN eliminated
                      ELSE eliminated \ candidates_to_eliminate
        IN  total_votes = Cardinality(LiveVotes(before))


\* C21: a candidate with no first-preference vote in a round is not eliminated
\* in that round: the eliminated candidates all have first-preference votes,
\* and a candidate that is on the working ballots without being on top of any
\* stays on them, where later rounds can transfer votes to it.
C21_ZeroVoteCandidatesStay ==
    [][pc = "round" /\ (pc' = "round" \/ exit' = "exhausted") =>
          /\ \A c \in eliminated' \ eliminated : TopCount(ballots, c) >= 1
          /\ \A c \in CandidatesOn(ballots) :
                 TopCount(ballots, c) = 0 =>
                     /\ c \notin eliminated'
                     /\ c \in CandidatesOn(ballots')]_vars

\* A candidate without first preferences in round 1 is on top of a ballot at
\* the start of round 2.
C21_Witness ==
    /\ pc = "round"
    /\ round = 1
    /\ \E c \in Tops(ballots) :
           /\ c \notin DOMAIN first_pref_counts
           /\ c \in RankedCandidates
           /\ c \notin eliminated


\* The used sessions of a Google account in an election
SessionsOf(google_id, election_id) ==
    {s \in DOMAIN sessions : /\ voters[sessions[s].voter_id] = google_id
                             /\ sessions[s].election_id = election_id
                             /\ sessions[s].is_used}

\* C22: whatever ballots were submitted, a Google account has at most one
\* Voter row and, in each election, at most one used voting session, with
\* one vote and one receipt to each session; a further ballot of a voter who
\* has voted in the election (a request body that passes the BallotSubmission
\* validators) is rejected with status 400 and changes no voter, session,
\* vote or receipt.
C22_OneVotePerVoter ==
    /\ [](\A g \in 1..MaxVoters :
              /\ Cardinality({v \in DOMAIN voters : voters[v] = g}) <= 1
              /\ \A e \in ElectionIds : Cardinality(SessionsOf(g, e)) <= 1)
    /\ [](/\ Len(votes) = Len(sessions)
          /\ Len(vote_hashes) = Len(sessions)
          /\ receipts = [s \in DOMAIN sessions |-> s])
    /\ [][VoteRequested /\ AlreadyVoted /\ response'.status # 422 =>
              /\ response'.status = 400
              /\ UNCHANGED <<voters, sessions, votes, vote_hashes,
                             receipts>>]_vars

\* A voter who has voted is turned away from the open, unfrozen election
\* after another voter has voted.
C22_Witness ==
    /\ response.op = "submit_vote"
    /\ response.status = 400
    /\ response.args.election_id \in DOMAIN elections
    /\ ~elections[response.args.election_id].is_frozen
    /\ now >= elections[response.args.election_id].start_time
    /\ now <= elections[response.args.election_id].end_time
    /\ Len(votes) = 2
    /\ SessionsOf(response.args.google_id, response.args.election_id) = {1}


\* The requests that write the audit log when they succeed
LoggedOps ==
    {"create_election", "add_candidate", "freeze_election", "unfreeze_election"}

\* C23: the audit log only grows at its end: every step leaves the rows it
\* had as they were; a create_election, add_candidate, freeze_election or
\* unfreeze_election that succeeds adds exactly one row with its action
\* type and its election id; one that is rejected (404, 400) adds none; and
\* submit_vote adds none.
C23_AuditLogAppendOnly ==
    [][/\ Len(audit_logs') >= Len(audit_logs)
       /\ SubSeq(audit_logs', 1, Len(audit_logs)) = audit_logs
       /\ response'.op \in LoggedOps /\ response'.status = 200 =>
              audit_logs' = Append(audit_logs,
                  [action_type |-> response'.op,
                   election_id |-> IF response'.op = "create_election"
                                   THEN response'.body.election_id
                                   ELSE response'.args.election_id])
       /\ response'.status \in {400, 404, 422} => audit_logs' = audit_logs
       /\ response'.op = "submit_vote" => audit_logs' = audit_logs]_vars

\* A candidate is refused for the frozen election after one was added.
C23_Witness ==
    /\ response.op = "add_candidate"
    /\ response.status = 400
    /\ Len(audit_logs) = 3
    /\ audit_logs[1].action_type = "create_election"
    /\ audit_logs[2].action_type = "add_candidate"
    /\ audit_logs[3].action_type = "freeze_election"


\* C24: calculate_irv_winner returns None exactly when no stored ballot holds a
\* preference (no ballots, or only ballots that rank nobody); when some ballot
\* ranks a candidate, a candidate is returned, and the return after the
\* removal of the empty ballots (backend.py:410-411) is never taken.
C24_NoneIffNoPreference ==
    Returned =>
        /\ result = None <=> RankedCandidates = {}
        /\ exit # "exhausted"

C24_Witness ==
    /\ Returned
    /\ result = None
    /\ exit = "all_tied"
    /\ Len(votes) = 3
    /\ RankedCandidates = {}

\* C25: a candidate that calculate_irv_winner returns is ranked on some stored
\* ballot, is the top preference of some working ballot in the round that
\* returns it, and was not eliminated in a round before.
C25_WinnerHasVotes ==
    Returned /\ result # None =>
        /\ result[1] \in RankedCandidates
        /\ TopCount(ballots, result[1]) >= 1
        /\ result[1] \notin eliminated

C25_Witness ==
    /\ Returned
    /\ result # None
    /\ round = 2
    /\ exit = "majority"
    /\ eliminated # {}
    /\ Cardinality(RankedCandidates) = 3


\* C26: the result of calculate_irv_winner does not depend on the order of the
\* ballots unless the call ends in all-tied termination: two calls on the same
\* ballots, read in whatever orders, return the same result by the same
\* return statement; in all-tied termination the returned candidate is the
\* top preference of the earliest working ballot that has one.
C26_OrderMattersOnlyInTies ==
    /\ (/\ Returned
        /\ previous # None
        /\ previous[1].votes = votes
        /\ (exit # "all_tied" \/ previous[1].exit # "all_tied"))
       => /\ result = previous[1].result
          /\ exit = previous[1].exit
          /\ eliminated = previous[1].eliminated
    /\ Returned /\ exit = "all_tied" /\ result # None =>
           \E i \in DOMAIN ballots :
               /\ ballots[i] # <<>>
               /\ result = Some(ballots[i][1])
               /\ \A j \in 1..(i - 1) : ballots[j] = <<>>

\* Two calls on the same ballots, read in different orders, both ended in
\* all-tied termination and returned different candidates.
C26_Witness ==
    /\ Returned
    /\ previous # None
    /\ previous[1].votes = votes
    /\ exit = "all_tied"
    /\ previous[1].exit = "all_tied"
    /\ result # None
    /\ previous[1].result # None
    /\ result # previous[1].result


\* The ballots that rank somebody, in their order
PreferenceVotes(vs) == SelectSeq(vs, LAMBDA v : DOMAIN v # {})

OutsideWindow(election_id) ==
    IF election_id \in DOMAIN elections
    THEN \/ now < elections[election_id].start_time
         \/ now > elections[election_id].end_time
    ELSE TRUE

\* C28: a voter, session, vote or receipt is stored only by a submit_vote for
\* an election that exists, at a time within its window (start_time <= now
\* <= end_time); a submission before start_time, after end_time or for an
\* unknown election is answered with an error and stores none of them.
C28_VotesOnlyWithinWindow ==
    [][/\ <<voters, sessions, votes, vote_hashes, receipts>>'
              # <<voters, sessions, votes, vote_hashes, receipts>> =>
              /\ response'.op = "submit_vote"
              /\ response'.status = 200
              /\ ~OutsideWindow(response'.args.election_id)
       /\ (/\ response'.op = "submit_vote"
           /\ now' = now
           /\ OutsideWindow(response'.args.election_id)) =>
              /\ response'.status \in {400, 404, 422}
              /\ UNCHANGED <<voters, sessions, votes, vote_hashes,
                             receipts>>]_vars

\* A voter who has not voted is turned away after the end of the unfrozen
\* election, in which another voter has voted.
C28_Witness ==
    /\ response.op = "submit_vote"
    /\ response.status = 400
    /\ response.args.election_id \in DOMAIN elections
    /\ ~elections[response.args.election_id].is_frozen
    /\ now > elections[response.args.election_id].end_time
    /\ Len(votes) = 1
    /\ response.args.google_id \notin Range(voters)


\* C29: the first-preference tally of the results view equals the counts of
\* round 1 of calculate_irv_winner, candidate by candidate: it has as many
\* entries, and the entry of each candidate holds that candidate's round-1
\* count.
C29_ResultsMatchRoundOne ==
    ResultsShown /\ round = 1 =>
        LET counts == response.body.vote_counts
        IN  /\ Cardinality(DOMAIN counts) = Cardinality(DOMAIN first_pref_counts)
            /\ \A c \in DOMAIN first_pref_counts :
                   counts[CandidateName(1, c)] = first_pref_counts[c]

====
